---- MODULE Spec2Model ----
(***************************************************************************)
(* A model of DrugEmbedding/evae.py: the EVAE module's one-hot embedding,  *)
(* encoder, reparameterisation, decoder (word dropout, pack, un-sort),     *)
(* the VAE losses, the marginal posterior divergence and the ranking loss. *)
(*                                                                         *)
(* Tensors are functions over 0-based index ranges, as in the source.      *)
(* The learned layers (GRU, Linear) and the densities are uninterpreted:   *)
(* their result is a record naming the layer and holding its operands, so  *)
(* two results are equal only when they were computed from equal operands. *)
(***************************************************************************)
EXTENDS Integers, Sequences, FiniteSets, TLC

VARIABLES self, pc, op, args, locals, calls, ret

vars == <<self, pc, op, args, locals, calls, ret>>

----------------------------------------------------------------------------
(* Bounds of the model *)

\* largest batch (number of examples)
MaxBatch == 3
\* the configured max_sequence_length; sequence tensors have one column less
MaxSeqLen == 3
\* word_dropout_rate and torch.rand draws are counted in units of 1/RateScale
RateScale == 2
\* the four special symbols need a vocabulary of at least four
MinVocab == 4
\* largest vocab_size
MaxVocab == 5
\* largest number K of negative candidates of a ranking group
MaxNeg == 1
\* largest num_samples
MaxSamples == 2
\* largest batch handed to ranking_loss
MaxAnchors == 2

----------------------------------------------------------------------------
(* Tensor helpers *)

Range(n) == 0 .. (n - 1)

Size(x) == Cardinality(DOMAIN x)

\* x[idx] for an index tensor idx (advanced indexing along dim 0)
Index(x, idx) == [k \in DOMAIN idx |-> x[idx[k]]]

\* x[lo:hi] along dim 0
SliceRows(x, lo, hi) == [k \in Range(hi - lo) |-> x[lo + k]]

\* torch.cat((a, b)) along dim 0
Cat(a, b) == [k \in Range(Size(a) + Size(b)) |-> IF k < Size(a) THEN a[k] ELSE b[k - Size(a)]]

\* torch.max of a non-empty 1-d tensor
Max(x) == CHOOSE m \in {x[k] : k \in DOMAIN x} : \A k \in DOMAIN x : x[k] <= m

RECURSIVE SortFrom(_, _, _)
\* the index sequences that list `rest` in sorted order of v
SortFrom(v, rest, descending) ==
    IF rest = {} THEN {<<>>}
    ELSE LET first == {i \in rest : \A j \in rest :
                          IF descending THEN v[i] >= v[j] ELSE v[i] <= v[j]}
         IN  UNION {{<<i>> \o s : s \in SortFrom(v, rest \ {i}, descending)} : i \in first}

\* the index tensors torch.sort(v, descending) may return: torch.sort is not
\* stable, so tied elements may come out in any order
TorchSortIdx(v, descending) ==
    {[k \in Range(Size(v)) |-> s[k + 1]] : s \in SortFrom(v, DOMAIN v, descending)}

\* a slip: the sort's own indices taken for their inverse
RestoreOrderBySortedIdx(sorted_idx) == sorted_idx

\* `_, reversed_idx = torch.sort(sorted_idx)`: the values of a permutation are
\* distinct, so the ascending sort has exactly one result
RestoreOrder(sorted_idx) == CHOOSE r \in TorchSortIdx(sorted_idx, FALSE) : TRUE

----------------------------------------------------------------------------
(* Construction *)

\* EVAE.__init__ stores its arguments; it validates none of them
EVAE(p) ==
    [word_dropout_rate   |-> p.word_dropout_rate,
     vocab_size          |-> p.vocab_size,
     max_sequence_length |-> p.max_sequence_length,
     sos_idx |-> p.sos_idx, eos_idx |-> p.eos_idx,
     pad_idx |-> p.pad_idx, unk_idx |-> p.unk_idx,
     prior   |-> p.prior,
     alpha   |-> p.alpha, beta |-> p.beta, gamma |-> p.gamma]

\* the special symbols' ids: pad first, or the start symbol first
PadFirst == [pad_idx |-> 0, sos_idx |-> 1, eos_idx |-> 2, unk_idx |-> 3]

SosFirst == [sos_idx |-> 0, pad_idx |-> 1, eos_idx |-> 2, unk_idx |-> 3]

SpecialIdx == {PadFirst, SosFirst}

Priors == {"Standard", "Hyperbolic"}

\* constructor arguments: rates, vocabulary sizes, priors and weights vary
Params(rates, vocabs, special, priors, weights) ==
    {[word_dropout_rate |-> r, vocab_size |-> v, max_sequence_length |-> MaxSeqLen,
      sos_idx |-> s.sos_idx, eos_idx |-> s.eos_idx, pad_idx |-> s.pad_idx,
      unk_idx |-> s.unk_idx, prior |-> p,
      alpha |-> w[1], beta |-> w[2], gamma |-> w[3]] :
        r \in rates, v \in vocabs, s \in special, p \in priors, w \in weights}

----------------------------------------------------------------------------
(* Results of a call *)

NoValue == [fn |-> "none"]

\* to_cuda_var(torch.tensor(0.0)) and torch.tensor(0.0)
Zero == [fn |-> "tensor", v |-> 0]

\* F(v) and F(v, w), with the operands evaluated once
Once(v, F(_)) == CHOOSE y \in {F(x) : x \in {v}} : TRUE

Once2(v, w, F(_, _)) == CHOOSE y \in {F(x1, x2) : x1 \in {v}, x2 \in {w}} : TRUE

Returned(value, called, loc) ==
    [exc |-> "none", value |-> value, calls |-> called, locals |-> loc]

Raised(exc, called, loc) ==
    [exc |-> exc, value |-> NoValue, calls |-> called, locals |-> loc]

----------------------------------------------------------------------------
(* one_hot_embedding, encoder, reparameterize *)

\* the test `char.item() != 0` of one_hot_embedding
Embedded(slf, char) == char # 0

OneHotEmbedding(slf, input_sequence) ==
    [b \in DOMAIN input_sequence |->
        [t \in DOMAIN input_sequence[b] |->
            [v \in Range(slf.vocab_size) |->
                IF Embedded(slf, input_sequence[b][t]) /\ v = input_sequence[b][t]
                THEN 1 ELSE 0]]]

\* an embedding vector in short: the index of its 1, or -1 when it is all zero
Hot(vec) == IF \E v \in DOMAIN vec : vec[v] = 1
            THEN CHOOSE v \in DOMAIN vec : vec[v] = 1 ELSE -1

\* pack_padded_sequence keeps the first lengths[k] steps of row k; the GRU's
\* result for row k is a function of these steps
Packed(rep, lengths) ==
    [k \in DOMAIN rep |-> [t \in Range(lengths[k]) |-> Hot(rep[k][t])]]

Encoder(slf, input_sequence, sorted_lengths) ==
    LET one_hot_rep  == OneHotEmbedding(slf, input_sequence)
        packed_input == Packed(one_hot_rep, sorted_lengths)
    IN  [k \in DOMAIN input_sequence |-> [fn |-> "encoder_rnn", x |-> packed_input[k]]]

\* row k of eps is a fresh draw, named by its row
Reparameterize(slf, hidden) ==
    [mean |-> [k \in DOMAIN hidden |-> [fn |-> "hidden2mean", h |-> hidden[k]]],
     logv |-> [k \in DOMAIN hidden |-> [fn |-> "hidden2logv", h |-> hidden[k]]],
     z    |-> [k \in DOMAIN hidden |-> [fn |-> "sample", h |-> hidden[k], eps |-> k]]]

----------------------------------------------------------------------------
(* Calls and returns *)

\* the call's result is computed once, then stored
Call(name, a, result) ==
    \E r \in {result} :
    /\ pc' = "done"
    /\ op' = name
    /\ args' = a
    /\ locals' = r.locals
    /\ calls' = r.calls
    /\ ret' = [exc |-> r.exc, value |-> r.value]
    /\ UNCHANGED self

\* the call returns (or its exception propagates); its tensors are dropped
Return ==
    /\ pc = "done"
    /\ pc' = "idle"
    /\ op' = "none"
    /\ args' = <<>>
    /\ locals' = <<>>
    /\ calls' = {}
    /\ ret' = [exc |-> "none", value |-> NoValue]
    /\ UNCHANGED self

Constructed(params) ==
    /\ self \in {EVAE(p) : p \in params}
    /\ pc = "idle"
    /\ op = "none"
    /\ args = <<>>
    /\ locals = <<>>
    /\ calls = {}
    /\ ret = [exc |-> "none", value |-> NoValue]

----------------------------------------------------------------------------
(* one_hot_embedding on its own *)

\* token-id batches of one or two rows and up to max_sequence_length-1 columns
TokenBatches(slf) ==
    UNION {[Range(b) -> [Range(t) -> Range(slf.vocab_size)]] :
              b \in 1 .. 2, t \in 1 .. (slf.max_sequence_length - 1)}

CallOneHotEmbedding ==
    /\ pc = "idle"
    /\ \E input_sequence \in TokenBatches(self) :
        Call("one_hot_embedding", [input_sequence |-> input_sequence],
             Returned(OneHotEmbedding(self, input_sequence), {}, <<>>))

InitEmbed == Constructed(Params({0}, MinVocab .. MaxVocab, SpecialIdx, {"Standard"}, {<<1, 1, 1>>}))

NextEmbed == CallOneHotEmbedding \/ Return

SpecEmbed == InitEmbed /\ [][NextEmbed]_vars

----------------------------------------------------------------------------
(* decoder *)

\* torch.rand draws a value of [0, 1) per position: draw d stands for the
\* interval [d/RateScale, (d+1)/RateScale), and RateScale for the value 1
Draws == Range(RateScale)

\* a slip: only the start symbol is exempt from dropout
KeptAsIsSosOnly(slf, char) == char - slf.sos_idx = 0

\* the positions line 106 sets to 1: the token is the start or the pad symbol
KeptAsIs(slf, char) == (char - slf.sos_idx) * (char - slf.pad_idx) = 0

\* prob after `prob[... == 0] = 1`
Prob(slf, input_sequence, rand) ==
    [b \in DOMAIN input_sequence |->
        [t \in DOMAIN input_sequence[b] |->
            IF KeptAsIs(slf, input_sequence[b][t]) THEN RateScale ELSE rand[b][t]]]

\* the clone of input_sequence with `[prob < word_dropout_rate] = unk_idx`
WordDropout(slf, input_sequence, rand) ==
    LET prob == Prob(slf, input_sequence, rand)
    IN  [b \in DOMAIN input_sequence |->
            [t \in DOMAIN input_sequence[b] |->
                IF prob[b][t] < slf.word_dropout_rate
                THEN slf.unk_idx ELSE input_sequence[b][t]]]

\* a slip: line 119 left out, the rows stay in sorted order
ProcessOutputsUnrestored(outputs, sorted_lengths, sorted_idx) ==
    [k \in DOMAIN outputs |->
        [fn |-> "log_softmax", out |-> [y |-> outputs[k], steps |-> Max(sorted_lengths)]]]

\* lines 115-125: pad the outputs to the longest sequence, restore the
\* caller's row order, project every step to the vocabulary
ProcessOutputs(outputs, sorted_lengths, sorted_idx) ==
    LET s              == Max(sorted_lengths)
        padded_outputs == [k \in DOMAIN outputs |-> [y |-> outputs[k], steps |-> s]]
        reversed_idx   == RestoreOrder(sorted_idx)
        restored       == Index(padded_outputs, reversed_idx)
    IN  [i \in DOMAIN restored |-> [fn |-> "log_softmax", out |-> restored[i]]]

Decoder(slf, input_sequence, sorted_lengths, sorted_idx, z, rand) ==
    LET hidden == [k \in DOMAIN z |-> [fn |-> "latent2hidden", z |-> z[k]]]
    IN  IF slf.word_dropout_rate > 0
        THEN LET decoder_input_sequence == WordDropout(slf, input_sequence, rand)
                 decoder_one_hot_rep    == OneHotEmbedding(slf, decoder_input_sequence)
                 packed_input           == Packed(decoder_one_hot_rep, sorted_lengths)
                 outputs == [k \in DOMAIN packed_input |->
                                [fn |-> "decoder_rnn", x |-> packed_input[k], h0 |-> hidden[k]]]
             IN  Returned(ProcessOutputs(outputs, sorted_lengths, sorted_idx),
                          {"one_hot_embedding"},
                          [input_sequence         |-> input_sequence,
                           decoder_input_sequence |-> decoder_input_sequence,
                           decoder_one_hot_rep    |-> decoder_one_hot_rep])
        \* decoder_one_hot_rep is assigned only under the `if`: line 110 reads
        \* an unbound local
        ELSE Raised("UnboundLocalError", {}, [input_sequence |-> input_sequence])

\* a one-row batch of any tokens, its length, and a latent row
CallDecoder ==
    /\ pc = "idle"
    /\ \E row \in [Range(self.max_sequence_length - 1) -> Range(self.vocab_size)],
       len \in 1 .. (self.max_sequence_length - 1),
       rand \in [Range(1) -> [Range(self.max_sequence_length - 1) -> Draws]] :
        LET input_sequence == [b \in Range(1) |-> row]
            sorted_lengths == [b \in Range(1) |-> len]
            sorted_idx     == [b \in Range(1) |-> 0]
            z              == [b \in Range(1) |-> [fn |-> "z", row |-> b]]
        IN  Call("decoder",
                 [input_sequence |-> input_sequence, sorted_lengths |-> sorted_lengths,
                  sorted_idx |-> sorted_idx, z |-> z],
                 Decoder(self, input_sequence, sorted_lengths, sorted_idx, z, rand))

\* word_dropout_rate is a probability: 0, 1/RateScale, ..., 1
Rates == 0 .. RateScale

InitDecoder == Constructed(Params(Rates, {MaxVocab}, SpecialIdx, {"Standard"}, {<<1, 1, 1>>}))

NextDecoder == CallDecoder \/ Return

SpecDecoder == InitDecoder /\ [][NextDecoder]_vars

----------------------------------------------------------------------------
(* kl_loss, marginal_posterior_divergence *)

KlLoss(slf, mean, logv, z) ==
    LET logp_posterior_z == [b \in DOMAIN mean |->
                                [fn |-> "log_prob", mu |-> mean[b], logv |-> logv[b], z |-> z[b]]]
        logp_prior_z     == [b \in DOMAIN mean |-> [fn |-> "log_prob_prior", z |-> z[b]]]
    IN  IF slf.prior = "Standard"
        THEN Returned([fn |-> "kl", posterior |-> logp_posterior_z, prior |-> logp_prior_z],
                      {}, <<>>)
        \* kl_loss is assigned only under the `if`: line 211 reads an unbound local
        ELSE Raised("UnboundLocalError", {}, <<>>)

\* a slip: the second slice starts at b, so row b stays in
RemoveRowOffByOne(x, b) == Cat(SliceRows(x, 0, b), SliceRows(x, b, Size(x)))

\* torch.cat((x[:b, :], x[b + 1:, :]))
RemoveRow(x, b) == Cat(SliceRows(x, 0, b), SliceRows(x, b + 1, Size(x)))

MarginalPosteriorDivergence(slf, z, mean, logv, num_samples) ==
    LET batch_size == Size(mean)
        Term(b) ==
            LET mu_r   == RemoveRow(mean, b)
                logv_r == RemoveRow(logv, b)
            IN  [logq_zb_xb |-> [fn |-> "log_prob", mu |-> mean[b], logv |-> logv[b], z |-> z[b]],
                 logq_zb_xr |-> [r \in Range(batch_size - 1) |->
                                    [fn |-> "log_prob", mu |-> mu_r[r], logv |-> logv_r[r], z |-> z[b]]],
                 logp_zb    |-> [fn |-> "log_prob_prior", z |-> z[b]]]
    IN  IF batch_size = 1
        \* (num_samples - 1) / ((batch_size - 1) * num_samples) divides by zero
        THEN Raised("ZeroDivisionError", {}, <<>>)
        ELSE Returned([fn |-> "mkl", num_samples |-> num_samples,
                       terms |-> [b \in Range(batch_size) |-> Term(b)]], {}, <<>>)

----------------------------------------------------------------------------
(* vae_loss, get_intermediates *)

\* the loss of an inner call divided by batch_size; its exception propagates
Div(r, batch_size) ==
    IF r.exc # "none" THEN r
    ELSE Returned([fn |-> "div", x |-> r.value, by |-> batch_size], r.calls, r.locals)

VaeLoss(slf, batch, num_samples, sorted_idx, rand) ==
    LET batch_size     == Size(batch.drug_name)
        sorted_lengths == Index(batch.drug_len, sorted_idx)
        input_sequence == Index(batch.drug_inputs, sorted_idx)
        hidden         == Encoder(slf, input_sequence, sorted_lengths)
        target         == [i \in DOMAIN batch.drug_targets |->
                              SliceRows(batch.drug_targets[i], 0, Max(batch.drug_len))]
        loc            == [sorted_idx |-> sorted_idx]
        c0             == {"encoder", "reparameterize", "decoder"}
        c1             == c0 \cup IF slf.beta > 0 THEN {"kl_loss"} ELSE {}
        c2             == c1 \cup IF slf.alpha > 0 THEN {"marginal_posterior_divergence"} ELSE {}
        c3             == c2 \cup IF slf.gamma > 0 THEN {"mmd_loss"} ELSE {}
        \* lines 176-196, once the decoder has returned logp_drug
        Losses(rp, logp_drug) ==
            LET recon_loss == [fn |-> "RECON", logp |-> logp_drug, target |-> target,
                               by |-> batch_size]
                mmd_loss   == IF slf.gamma > 0 THEN [fn |-> "mmd", z |-> rp.z] ELSE Zero
                Rest(kl, mkl) ==
                    IF kl.exc # "none" THEN Raised(kl.exc, c1, loc)
                    ELSE IF mkl.exc # "none" THEN Raised(mkl.exc, c2, loc)
                    ELSE Returned(<<recon_loss, kl.value, mkl.value, mmd_loss>>, c3, loc)
            IN  Once2(IF slf.beta > 0
                      THEN Div(KlLoss(slf, rp.mean, rp.logv, rp.z), batch_size)
                      ELSE Returned(Zero, {}, <<>>),
                      IF slf.alpha > 0
                      THEN Div(MarginalPosteriorDivergence(slf, rp.z, rp.mean, rp.logv,
                                                           num_samples), batch_size)
                      ELSE Returned(Zero, {}, <<>>),
                      Rest)
        Decode(rp) ==
            Once(Decoder(slf, input_sequence, sorted_lengths, sorted_idx, rp.z, rand),
                 LAMBDA dec : IF dec.exc # "none" THEN Raised(dec.exc, c0, loc)
                              ELSE Losses(rp, dec.value))
    IN  Once(Reparameterize(slf, hidden), Decode)

GetIntermediates(slf, batch, sorted_idx) ==
    LET sorted_lengths == Index(batch.drug_len, sorted_idx)
        input_sequence == Index(batch.drug_inputs, sorted_idx)
        reversed_idx   == RestoreOrder(sorted_idx)
        hidden         == Encoder(slf, input_sequence, sorted_lengths)
        rp             == Reparameterize(slf, hidden)
    IN  Returned([mean |-> Index(rp.mean, reversed_idx),
                  logv |-> Index(rp.logv, reversed_idx),
                  z    |-> Index(rp.z, reversed_idx)],
                 {"encoder", "reparameterize"},
                 [sorted_idx |-> sorted_idx])

----------------------------------------------------------------------------
(* Batches: what the data loader hands over *)

\* an input row of `len` symbols: the start symbol, len-1 times `body`, pads
InputRow(slf, len, body) ==
    [t \in Range(slf.max_sequence_length - 1) |->
        IF t = 0 THEN slf.sos_idx ELSE IF t < len THEN body ELSE slf.pad_idx]

\* its target: the input shifted by one, closed by the end symbol
TargetRow(slf, len, body) ==
    [t \in Range(slf.max_sequence_length - 1) |->
        IF t < len - 1 THEN body ELSE IF t = len - 1 THEN slf.eos_idx ELSE slf.pad_idx]

Bodies(slf) == {slf.unk_idx, slf.vocab_size - 1}

Examples(slf) ==
    {[drug_inputs |-> InputRow(slf, len, body), drug_targets |-> TargetRow(slf, len, body),
      drug_len |-> len] :
        len \in 1 .. (slf.max_sequence_length - 1), body \in Bodies(slf)}

BatchOf(ex) ==
    [drug_name    |-> [i \in DOMAIN ex |-> i],
     drug_inputs  |-> [i \in DOMAIN ex |-> ex[i].drug_inputs],
     drug_targets |-> [i \in DOMAIN ex |-> ex[i].drug_targets],
     drug_len     |-> [i \in DOMAIN ex |-> ex[i].drug_len]]

Batches(slf) ==
    {BatchOf(ex) : ex \in UNION {[Range(n) -> Examples(slf)] : n \in 1 .. MaxBatch}}

\* torch.rand results in which every position drew the same value
UniformRand(input_sequence) ==
    {[b \in DOMAIN input_sequence |-> [t \in DOMAIN input_sequence[b] |-> d]] : d \in Draws}

CallVaeLoss ==
    /\ pc = "idle"
    /\ \E batch \in Batches(self), num_samples \in {MaxSamples} :
        \E sorted_idx \in TorchSortIdx(batch.drug_len, TRUE),
           rand \in UniformRand(batch.drug_inputs) :
            Call("vae_loss", [batch |-> batch, num_samples |-> num_samples],
                 VaeLoss(self, batch, num_samples, sorted_idx, rand))

CallGetIntermediates ==
    /\ pc = "idle"
    /\ \E batch \in Batches(self) :
        \E sorted_idx \in TorchSortIdx(batch.drug_len, TRUE) :
            Call("get_intermediates", [batch |-> batch],
                 GetIntermediates(self, batch, sorted_idx))

InitVae == Constructed(Params(Rates, {MaxVocab}, SpecialIdx, {"Standard"}, {<<1, 1, 1>>}))

NextVae == CallVaeLoss \/ CallGetIntermediates \/ Return

SpecVae == InitVae /\ [][NextVae]_vars

----------------------------------------------------------------------------
(* ranking_loss *)

\* a slip: any non-zero indicator selects
SelectedNonZero(indicator) == indicator # 0

\* the test `instance_idx[i] == 1`
Selected(indicator) == indicator = 1

RECURSIVE SelectFrom(_, _, _)
\* the loop of lines 263-265 from index i on
SelectFrom(instance_idx, i, batch_size) ==
    IF i = batch_size THEN <<>>
    ELSE (IF Selected(instance_idx[i]) THEN <<i>> ELSE <<>>)
         \o SelectFrom(instance_idx, i + 1, batch_size)

\* select_idx as a 0-based list
SelectIdx(batch) ==
    LET sel == SelectFrom(batch.loc_ranking_indicator, 0, Size(batch.drug_name))
    IN  [k \in Range(Len(sel)) |-> sel[k + 1]]

\* x.view(-1, ...) of a tensor of `cols` columns: row-major
Flatten(x, cols) == [f \in Range(Size(x) * cols) |-> x[f \div cols][f % cols]]

\* flat.view(rows, cols)
View(flat, rows, cols) == [i \in Range(rows) |-> [j \in Range(cols) |-> flat[i * cols + j]]]

\* a slip: repeat(nneg + 1, 1) tiles the whole batch instead of each row
MeanDrugExpTiled(mean_drug, nneg) ==
    [f \in Range(Size(mean_drug) * (nneg + 1)) |-> mean_drug[f % Size(mean_drug)]]

\* mean_drug.unsqueeze(0).repeat(1, 1, nneg + 1).view(-1, latent_size): the
\* repeat lays nneg+1 copies of row i side by side, the view cuts them apart
MeanDrugExp(mean_drug, nneg) ==
    [f \in Range(Size(mean_drug) * (nneg + 1)) |-> mean_drug[f \div (nneg + 1)]]

RankingLoss(slf, batch, sorted_idx, local_sorted_idx) ==
    LET select_idx == SelectIdx(batch)
        n          == Size(select_idx)
        nneg       == Size(batch.loc_ranking_len[0]) - 1
        \* anchors
        input_sequence_length == Index(batch.drug_len, select_idx)
        sorted_lengths == Index(input_sequence_length, sorted_idx)
        input_sequence == Index(Index(batch.drug_inputs, select_idx), sorted_idx)
        hidden_drug    == Encoder(slf, input_sequence, sorted_lengths)
        \* candidates
        local_ranking_sequence_length_flatten ==
            Flatten(Index(batch.loc_ranking_len, select_idx), nneg + 1)
        local_ranking_inputs_flatten ==
            Flatten(Index(batch.loc_ranking_inputs, select_idx), nneg + 1)
        local_sorted_lengths == Index(local_ranking_sequence_length_flatten, local_sorted_idx)
        local_ranking_inputs_flatten_sorted ==
            Index(local_ranking_inputs_flatten, local_sorted_idx)
        hidden_local_ranking_drug ==
            Encoder(slf, local_ranking_inputs_flatten_sorted, local_sorted_lengths)
        Distances(mean_drug_sorted, mean_local_ranking_sorted) ==
            LET mean_local_ranking == Index(mean_local_ranking_sorted,
                                            RestoreOrder(local_sorted_idx))
                mean_drug      == Index(mean_drug_sorted, RestoreOrder(sorted_idx))
                mean_drug_exp  == MeanDrugExp(mean_drug, nneg)
                pairwise       == [f \in DOMAIN mean_local_ranking |->
                                      [fn |-> "pairwise_distance",
                                       x1 |-> mean_local_ranking[f], x2 |-> mean_drug_exp[f]]]
            IN  View(pairwise, n, 1 + nneg)
        Loss(euclidean_dist) ==
            Returned([fn |-> "div",
                      x  |-> [fn |-> "ranking",
                              positive  |-> [i \in Range(n) |-> euclidean_dist[i][0]],
                              logsumexp |-> euclidean_dist],
                      by |-> n],
                     {"encoder", "reparameterize"},
                     [select_idx |-> select_idx, euclidean_dist |-> euclidean_dist])
    IN  IF n = 0
        THEN Returned(Zero, {}, [select_idx |-> select_idx])
        ELSE Once(Distances(Reparameterize(slf, hidden_drug).mean,
                            Reparameterize(slf, hidden_local_ranking_drug).mean),
                  Loss)

\* the sort results ranking_loss may see for a batch
AnchorSorts(batch) ==
    TorchSortIdx(Index(batch.drug_len, SelectIdx(batch)), TRUE)

CandidateSorts(batch) ==
    TorchSortIdx(Flatten(Index(batch.loc_ranking_len, SelectIdx(batch)),
                         Size(batch.loc_ranking_len[0])), TRUE)

----------------------------------------------------------------------------
(* Ranking batches *)

Indicators == {0, 1, 2}

\* candidate j of a group: lengths climb from 1, or fall from the longest
CandidateLen(slf, up, j) ==
    LET longest == slf.max_sequence_length - 1
    IN  IF up THEN 1 + (j % longest) ELSE longest - (j % longest)

CandidateBody(slf, up) == IF up THEN slf.unk_idx ELSE slf.vocab_size - 1

\* an anchor of one symbol or of full length, with a group of 1+nneg candidates
RankExamples(slf, nneg, indicators) ==
    {[drug_inputs  |-> InputRow(slf, len, slf.vocab_size - 1),
      drug_targets |-> TargetRow(slf, len, slf.vocab_size - 1),
      drug_len     |-> len,
      loc_ranking_indicator |-> ind,
      loc_ranking_len    |-> [j \in Range(1 + nneg) |-> CandidateLen(slf, up, j)],
      loc_ranking_inputs |-> [j \in Range(1 + nneg) |->
                                 InputRow(slf, CandidateLen(slf, up, j), CandidateBody(slf, up))]] :
        len \in {1, slf.max_sequence_length - 1}, ind \in indicators, up \in BOOLEAN}

RankBatchOf(ex) ==
    [drug_name    |-> [i \in DOMAIN ex |-> i],
     drug_inputs  |-> [i \in DOMAIN ex |-> ex[i].drug_inputs],
     drug_targets |-> [i \in DOMAIN ex |-> ex[i].drug_targets],
     drug_len     |-> [i \in DOMAIN ex |-> ex[i].drug_len],
     loc_ranking_indicator |-> [i \in DOMAIN ex |-> ex[i].loc_ranking_indicator],
     loc_ranking_len       |-> [i \in DOMAIN ex |-> ex[i].loc_ranking_len],
     loc_ranking_inputs    |-> [i \in DOMAIN ex |-> ex[i].loc_ranking_inputs]]

RankBatches(slf, sizes, indicators) ==
    {RankBatchOf(ex) :
        ex \in UNION {[Range(n) -> RankExamples(slf, nneg, indicators)] :
                         n \in sizes, nneg \in 1 .. MaxNeg}}

CallRankingLoss ==
    /\ pc = "idle"
    /\ \E batch \in RankBatches(self, 1 .. MaxAnchors, Indicators) :
        \E sorted_idx \in AnchorSorts(batch), local_sorted_idx \in CandidateSorts(batch) :
            Call("ranking_loss", [batch |-> batch],
                 RankingLoss(self, batch, sorted_idx, local_sorted_idx))

InitRank == Constructed(Params({1}, {MaxVocab}, SpecialIdx, {"Standard"}, {<<1, 1, 1>>}))

NextRank == CallRankingLoss \/ Return

SpecRank == InitRank /\ [][NextRank]_vars

----------------------------------------------------------------------------
(* forward *)

Tasks == {"vae", "atc", "vae + atc", "ae"}

Forward(slf, task, batch, num_samples, vae_sorted_idx, rand, sorted_idx, local_sorted_idx) ==
    LET VaeOnly(v) ==
            IF v.exc # "none" THEN Raised(v.exc, {"vae_loss"} \cup v.calls, <<>>)
            ELSE Returned(<<v.value[1], v.value[2], v.value[3], v.value[4], Zero>>,
                          {"vae_loss"} \cup v.calls, <<>>)
        RankOnly(r) ==
            Returned(<<Zero, Zero, Zero, Zero, r.value>>, {"ranking_loss"} \cup r.calls, <<>>)
        Both(v) ==
            IF v.exc # "none" THEN Raised(v.exc, {"vae_loss"} \cup v.calls, <<>>)
            ELSE Once(RankingLoss(slf, batch, sorted_idx, local_sorted_idx),
                      LAMBDA r : Returned(<<v.value[1], v.value[2], v.value[3], v.value[4],
                                            r.value>>,
                                          {"vae_loss", "ranking_loss"} \cup v.calls \cup r.calls,
                                          <<>>))
    IN  IF task = "vae"
        THEN Once(VaeLoss(slf, batch, num_samples, vae_sorted_idx, rand), VaeOnly)
        ELSE IF task = "atc"
        THEN Once(RankingLoss(slf, batch, sorted_idx, local_sorted_idx), RankOnly)
        ELSE IF task = "vae + atc"
        THEN Once(VaeLoss(slf, batch, num_samples, vae_sorted_idx, rand), Both)
        \* no branch of forward matches: the method falls off its end
        ELSE Returned([fn |-> "None"], {}, <<>>)

\* what a task draws: torch.sort and torch.rand results of the losses it calls
VaeSorts(task, batch) ==
    IF task \in {"vae", "vae + atc"} THEN TorchSortIdx(batch.drug_len, TRUE) ELSE {<<>>}

VaeRands(task, batch) ==
    IF task \in {"vae", "vae + atc"} THEN UniformRand(batch.drug_inputs) ELSE {<<>>}

RankSorts(task, batch) ==
    IF task \in {"atc", "vae + atc"} THEN AnchorSorts(batch) \X CandidateSorts(batch)
    ELSE {<<<<>>, <<>>>>}

CallForward ==
    /\ pc = "idle"
    /\ \E task \in Tasks, batch \in RankBatches(self, 1 .. 2, {0, 1}),
          num_samples \in {MaxSamples} :
        \E vae_sorted_idx \in VaeSorts(task, batch), rand \in VaeRands(task, batch),
           rs \in RankSorts(task, batch) :
            Call("forward", [task |-> task, batch |-> batch, num_samples |-> num_samples],
                 Forward(self, task, batch, num_samples, vae_sorted_idx, rand, rs[1], rs[2]))

\* posterior parameters and samples of n examples, each row named by its example
Rows(name, n) == [b \in Range(n) |-> [fn |-> name, row |-> b]]

CallKlLoss ==
    /\ pc = "idle"
    /\ \E n \in 1 .. MaxBatch :
        Call("kl_loss", [mean |-> Rows("mean", n), logv |-> Rows("logv", n), z |-> Rows("z", n)],
             KlLoss(self, Rows("mean", n), Rows("logv", n), Rows("z", n)))

CallMarginalPosteriorDivergence ==
    /\ pc = "idle"
    /\ \E n \in 1 .. MaxBatch, num_samples \in 1 .. MaxSamples :
        Call("marginal_posterior_divergence",
             [mean |-> Rows("mean", n), logv |-> Rows("logv", n), z |-> Rows("z", n),
              num_samples |-> num_samples],
             MarginalPosteriorDivergence(self, Rows("z", n), Rows("mean", n), Rows("logv", n),
                                         num_samples))

Weights == {<<a, b, c>> : a \in {0, 1}, b \in {0, 1}, c \in {0, 1}}

Init == Constructed(Params(Rates, {MaxVocab}, {PadFirst}, Priors, Weights))

Next == CallForward \/ CallKlLoss \/ CallMarginalPosteriorDivergence \/ Return

Spec == Init /\ [][Next]_vars

----------------------------------------------------------------------------
(* Properties *)

Done(name) == pc = "done" /\ op = name

\* what the encoder computes for one example on its own
HiddenOf(slf, row, len) ==
    Encoder(slf, [b \in Range(1) |-> row], [b \in Range(1) |-> len])[0]

\* the embedding of one symbol, in short
HotOf(slf, char) == Hot(OneHotEmbedding(slf, [b \in Range(1) |-> [t \in Range(1) |-> char]])[0][0])

\* C1: with word_dropout_rate = 0, decoder() completes and feeds the recurrent
\* decoder the one-hot embedding of the unmodified input sequence.
C1_DropoutOffKeepsInput ==
    (Done("decoder") /\ self.word_dropout_rate = 0) =>
        /\ ret.exc = "none"
        /\ locals.decoder_input_sequence = args.input_sequence
        /\ locals.decoder_one_hot_rep = OneHotEmbedding(self, args.input_sequence)

\* C2: one_hot_embedding gives every position whose token differs from pad_idx
\* a vector with a single 1, at the token's index, and every position holding
\* pad_idx the zero vector.
C2_OneHotExceptPad ==
    Done("one_hot_embedding") =>
        \A b \in DOMAIN args.input_sequence : \A t \in DOMAIN args.input_sequence[b] :
            LET char == args.input_sequence[b][t]
                vec  == ret.value[b][t]
            IN  /\ DOMAIN vec = Range(self.vocab_size)
                /\ \A v \in DOMAIN vec :
                      vec[v] = IF char # self.pad_idx /\ v = char THEN 1 ELSE 0

\* C3: row i of the log-probabilities vae_loss gets back from decoder() is the
\* output computed for example i of the caller's batch (its latent row, its
\* own teacher-forcing input, possibly corrupted), and is paired with target
\* row i, whatever order the length sort produced.
C3_DecoderRowsInCallerOrder ==
    (Done("vae_loss") /\ ret.exc = "none") =>
        LET batch == args.batch
            recon == ret.value[1]
        IN  \A i \in DOMAIN batch.drug_name :
                LET out == recon.logp[i].out
                IN  /\ out.y.h0.z.h = HiddenOf(self, batch.drug_inputs[i], batch.drug_len[i])
                    /\ DOMAIN out.y.x = Range(batch.drug_len[i])
                    /\ \A t \in DOMAIN out.y.x :
                          out.y.x[t] \in {HotOf(self, batch.drug_inputs[i][t]),
                                          HotOf(self, self.unk_idx)}
                    /\ out.steps = Max(batch.drug_len)
                    /\ recon.target[i] = SliceRows(batch.drug_targets[i], 0, Max(batch.drug_len))

\* a sort that is not its own inverse, over lengths with a tie
SortWasNotAnInvolution(lengths) ==
    /\ RestoreOrder(locals.sorted_idx) # locals.sorted_idx
    /\ \E i, j \in DOMAIN lengths : i # j /\ lengths[i] = lengths[j]

C3_Witness ==
    /\ Done("vae_loss") /\ ret.exc = "none"
    /\ SortWasNotAnInvolution(args.batch.drug_len)
    /\ \E i, j \in DOMAIN args.batch.drug_len :
          args.batch.drug_inputs[i] # args.batch.drug_inputs[j]

\* C4: for each of the three tasks forward() returns five values, (recon, kl,
\* mkl, mmd, ranking); 'vae' returns a zero ranking loss without calling
\* ranking_loss, 'atc' returns four zeros without calling vae_loss, and
\* 'vae + atc' calls both.
C4_ForwardReturnsFiveTerms ==
    (Done("forward") /\ args.task \in {"vae", "atc", "vae + atc"}) =>
        /\ ret.exc = "none"
        /\ Len(ret.value) = 5
        /\ args.task = "vae" =>
              ret.value[5] = Zero /\ "vae_loss" \in calls /\ "ranking_loss" \notin calls
        /\ args.task = "atc" =>
              /\ \A k \in 1 .. 4 : ret.value[k] = Zero
              /\ "ranking_loss" \in calls /\ "vae_loss" \notin calls
        /\ args.task = "vae + atc" => {"vae_loss", "ranking_loss"} \subseteq calls

\* C5: row i of the mean, logv and z that get_intermediates returns belongs to
\* example i of the caller's batch, whatever order the length sort produced.
C5_IntermediatesInCallerOrder ==
    Done("get_intermediates") =>
        LET batch == args.batch
        IN  /\ ret.exc = "none"
            /\ \A i \in DOMAIN batch.drug_name :
                  LET h == HiddenOf(self, batch.drug_inputs[i], batch.drug_len[i])
                  IN  /\ ret.value.mean[i] = [fn |-> "hidden2mean", h |-> h]
                      /\ ret.value.logv[i] = [fn |-> "hidden2logv", h |-> h]
                      /\ ret.value.z[i].fn = "sample" /\ ret.value.z[i].h = h
            /\ DOMAIN ret.value.mean = DOMAIN batch.drug_name
            /\ DOMAIN ret.value.logv = DOMAIN batch.drug_name
            /\ DOMAIN ret.value.z = DOMAIN batch.drug_name

C5_Witness ==
    /\ Done("get_intermediates")
    /\ SortWasNotAnInvolution(args.batch.drug_len)
    /\ \E i, j \in DOMAIN args.batch.drug_len :
          args.batch.drug_inputs[i] # args.batch.drug_inputs[j]

\* the examples of a batch whose indicator is 1
IndicatorOne(batch) ==
    {i \in DOMAIN batch.loc_ranking_indicator : batch.loc_ranking_indicator[i] = 1}

\* C6: the anchors of ranking_loss are exactly the examples whose indicator is
\* 1, in batch order; with none, it returns the zero scalar and encodes nothing.
C6_AnchorsAreIndicatorOne ==
    Done("ranking_loss") =>
        LET sel == locals.select_idx
        IN  /\ {sel[k] : k \in DOMAIN sel} = IndicatorOne(args.batch)
            /\ \A k, l \in DOMAIN sel : k < l => sel[k] < sel[l]
            /\ IndicatorOne(args.batch) = {} =>
                  ret = [exc |-> "none", value |-> Zero] /\ calls = {}
            /\ IndicatorOne(args.batch) # {} =>
                  ret.exc = "none" /\ DOMAIN locals.euclidean_dist = DOMAIN sel

C6_Witness ==
    /\ Done("ranking_loss")
    /\ \E i, j \in DOMAIN args.batch.drug_name :
          /\ args.batch.loc_ranking_indicator[i] = 2
          /\ args.batch.loc_ranking_indicator[j] = 1
    /\ locals.select_idx # <<>>

Anchor(batch, k) ==
    CHOOSE i \in IndicatorOne(batch) :
        Cardinality({j \in IndicatorOne(batch) : j < i}) = k

MeanOf(slf, row, len) == [fn |-> "hidden2mean", h |-> HiddenOf(slf, row, len)]

\* C8: entry (i, j) of ranking_loss's distance matrix is the distance between
\* the mean of candidate j of the i-th selected anchor's group and the mean of
\* that anchor; the positive term of row i is its column 0.
C8_DistancesWithinOwnGroup ==
    (Done("ranking_loss") /\ IndicatorOne(args.batch) # {}) =>
        LET batch == args.batch
            dist  == locals.euclidean_dist
        IN  /\ DOMAIN dist = Range(Cardinality(IndicatorOne(batch)))
            /\ \A i \in DOMAIN dist :
                  /\ DOMAIN dist[i] = DOMAIN batch.loc_ranking_len[0]
                  /\ \A j \in DOMAIN dist[i] :
                        dist[i][j] =
                            [fn |-> "pairwise_distance",
                             x1 |-> MeanOf(self, batch.loc_ranking_inputs[Anchor(batch, i)][j],
                                           batch.loc_ranking_len[Anchor(batch, i)][j]),
                             x2 |-> MeanOf(self, batch.drug_inputs[Anchor(batch, i)],
                                           batch.drug_len[Anchor(batch, i)])]
                  /\ ret.value.x.positive[i] = dist[i][0]
            /\ ret.value.x.logsumexp = dist
            /\ ret.value.by = Cardinality(IndicatorOne(batch))

\* two anchors that differ, with groups that differ, after an unselected example
C8_Witness ==
    /\ Done("ranking_loss")
    /\ Cardinality(IndicatorOne(args.batch)) >= 2
    /\ \E i, j \in IndicatorOne(args.batch) :
          /\ args.batch.drug_inputs[i] # args.batch.drug_inputs[j]
          /\ args.batch.loc_ranking_inputs[i] # args.batch.loc_ranking_inputs[j]
          /\ args.batch.loc_ranking_len[i][0] # args.batch.loc_ranking_len[i][1]

\* C9: with batch_size >= 2, the cross-example term of example b is evaluated
\* at z_b against the mean and log-variance of each other example once, row by
\* row from the same example and never from b; the in-example term uses b's own.
C9_CrossTermsExcludeSelf ==
    (Done("marginal_posterior_divergence") /\ Size(args.mean) >= 2) =>
        /\ ret.exc = "none"
        /\ DOMAIN ret.value.terms = DOMAIN args.mean
        /\ \A b \in DOMAIN args.mean :
              LET own   == ret.value.terms[b].logq_zb_xb
                  cross == ret.value.terms[b].logq_zb_xr
              IN  /\ own = [fn |-> "log_prob", mu |-> args.mean[b], logv |-> args.logv[b],
                            z |-> args.z[b]]
                  /\ DOMAIN cross = Range(Size(args.mean) - 1)
                  /\ \A r \in DOMAIN cross :
                        /\ cross[r].z = args.z[b]
                        /\ \E e \in DOMAIN args.mean \ {b} :
                              cross[r].mu = args.mean[e] /\ cross[r].logv = args.logv[e]
                  /\ \A e \in DOMAIN args.mean \ {b} :
                        Cardinality({r \in DOMAIN cross : cross[r].mu = args.mean[e]}) = 1

C9_Witness ==
    /\ Done("marginal_posterior_divergence")
    /\ Size(args.mean) >= 3
    /\ ret.exc = "none"

\* C10: no loss computation (kl_loss, marginal_posterior_divergence) is reached
\* by a model whose prior is not the supported one: construction rejects it.
C10_UnsupportedPriorRejected ==
    (pc = "done" /\ (op \in {"kl_loss", "marginal_posterior_divergence"}
                     \/ "kl_loss" \in calls
                     \/ "marginal_posterior_divergence" \in calls)) =>
        self.prior = "Standard"

====
